---- MODULE Spec2Model ----
(***************************************************************************)
(* A model of jirafa (src/jirafa.py): the paginated fetch loops of run_jql *)
(* and list_tickets with their output rows, the comment filter of          *)
(* get_ticket_comments and the two remote calls of create_jira_ticket.     *)
(* The command-line client runs one command per                            *)
(* process, synchronously; the model runs one command at a time, from      *)
(* "idle" to a final position ("..._done" or "failed") and back.           *)
(*                                                                         *)
(* Python strings are sequences of one-character strings, so that split,  *)
(* strip, lower, "in" and the lexical comparisons are computed as Python   *)
(* computes them.                                                          *)
(***************************************************************************)
EXTENDS Integers, Sequences, FiniteSets, TLC

VARIABLES
    pc,                 \* position of the running command
    cmd,                \* the command that is running, "none" when idle
    error,              \* the exception that ended the command, "none" otherwise
    max_results,        \* argument max_results
    fields,             \* run_jql, list_tickets: argument fields
    header,             \* run_jql, list_tickets: the header row of the table or CSV
    list_tickets_data,  \* list_tickets: local tickets_data
    csv_rows,           \* list_tickets: the rows written to the CSV file
    output_format,      \* argument output_format
    items_per_batch,    \* run_jql, list_tickets: argument items_per_batch
    remote_total,       \* run_jql: .total of the count-only search;
                        \* list_tickets: the number of issues the remote holds
    total_issues_count, \* run_jql: local total_issues_count
    num_batches,        \* run_jql: local num_batches
    start_at,           \* run_jql, list_tickets: local start_at
    total_issues,       \* run_jql, list_tickets: local total_issues (issue keys)
    tickets_data,       \* run_jql: local tickets_data, the rows that are rendered
    progress,           \* run_jql: position of the tqdm progress bar
    count_requests,     \* run_jql: number of count-only (maxResults=0) searches issued
    requests,           \* run_jql, list_tickets: the batch searches issued, in order
    filters,            \* get_ticket_comments: argument filters
    comments,           \* get_ticket_comments: what jira.comments(issue) returned
    filtered_comments,  \* get_ticket_comments: filtered_comments after the filter loop
    comments_data,      \* get_ticket_comments: the returned comments_data
    warnings,           \* get_ticket_comments: the filter strings warned about, in order
    files,              \* create_jira_ticket: the paths that exist on the local disk
    description_file_path, \* create_jira_ticket: argument description_file_path
    epic_key,           \* create_jira_ticket: argument epic_key ("" for None)
    calls,              \* create_jira_ticket: the remote calls issued, in order
    tickets,            \* the tickets the running command created on the remote
    epic_links          \* the (epic, ticket) links the running command created

vars == <<pc, cmd, error, max_results, output_format, items_per_batch, remote_total,
          total_issues_count, num_batches, start_at, total_issues, tickets_data,
          progress, count_requests, requests, filters, comments, filtered_comments,
          comments_data, warnings, files, description_file_path, epic_key, calls,
          tickets, epic_links, fields, header, list_tickets_data, csv_rows>>

listVars == <<fields, header, list_tickets_data, csv_rows>>

jqlVars == <<items_per_batch, remote_total, total_issues_count, num_batches, start_at,
             total_issues, tickets_data, progress, count_requests, requests>>

commentVars == <<filters, comments, filtered_comments, comments_data, warnings>>

createVars == <<files, description_file_path, epic_key, calls, tickets, epic_links>>

-----------------------------------------------------------------------------
(* Bounds of the model. *)

\* largest .total the remote reports for a query
MaxTotal == 5

\* largest max_results argument of run_jql
MaxResults == 3

\* largest items_per_batch argument
MaxBatch == 3

\* how many records more than requested a batch response may carry
MaxExtra == 1

\* cap on the batch searches of one run_jql invocation (never reached by the code:
\* see RequestCapNotReached)
MaxRequests == 6

\* longest comment list jira.comments returns
MaxComments == 2

\* longest list of filter strings
MaxFilters == 2

Min(a, b) == IF a < b THEN a ELSE b

OutputFormats == {"table", "csv", "json"}

-----------------------------------------------------------------------------
(* run_jql: the pieces of the fetch loop, one operator per line of code. *)

\* total_issues_count: the remote total, capped by max_results when one is given
EffectiveTotal_noMin(mr, rt) == rt

EffectiveTotal(mr, rt) == IF mr = 0 THEN rt ELSE Min(mr, rt)

\* num_batches = ceil(total_issues_count / items_per_batch)
NumBatches(total, ipb) == (total \div ipb) + (IF total % ipb # 0 THEN 1 ELSE 0)

\* batch_size = min(items_per_batch, total_issues_count - start_at)
BatchSize_full(ipb, total, start) == ipb

BatchSize(ipb, total, start) == Min(ipb, total - start)

\* "if not issues: break"
IsEmptyBatch_never(issues) == FALSE

IsEmptyBatch(issues) == Len(issues) = 0

\* start_at += len(issues)
Advance_byRequested(start, issues, batch_size) == start + batch_size

Advance_stuck(start, issues, batch_size) == start

Advance(start, issues, batch_size) == start + Len(issues)

\* "max_results > 0 and len(total_issues) >= max_results"
ReachedMax(mr, all) == mr > 0 /\ Len(all) >= mr

\* total_issues[:max_results]
Trim_none(all, mr) == all

Trim(all, mr) == SubSeq(all, 1, Min(mr, Len(all)))

\* The records of a batch response that carries n records for offset start: the
\* records at positions start+1 .. start+n of the remote's ordering.
BatchResponse(start, n) == [i \in 1..n |-> start + i]

\* safe_getattr(issue.fields, path, default): the value of a field of an issue is
\* opaque to the client
IssueField(issue, path) == <<path, issue>>

\* issue.key, as a cell of a row
IssueKey(issue) == <<"issue.key", issue>>

\* the row run_jql builds for one issue
TicketRow(issue) ==
    << IssueField(issue, "summary"),
       IssueField(issue, "status.name"),
       IssueField(issue, "assignee.displayName"),
       IssueKey(issue) >>

\* the field lists a caller of run_jql passes: the default and another order
JqlFieldLists == {<<"summary", "status", "assignee", "key">>, <<"key", "summary">>}

-----------------------------------------------------------------------------
(* list_tickets: the pieces of the fetch loop and of the rows. *)

\* "if 'key' not in fields: fields.append('key')"
WithKey(fl) ==
    IF \E i \in 1..Len(fl) : fl[i] = "key" THEN fl ELSE Append(fl, "key")

\* batch_size = min(items_per_batch, max_results - len(total_issues)) with a maximum,
\* items_per_batch without
ListBatchSize(ipb, mr, fetched) == IF mr > 0 THEN Min(ipb, mr - fetched) ELSE ipb

\* "len(issues) < batch_size or (max_results > 0 and len(total_issues) >= max_results)"
ListStop(issues, batch_size, mr, all) ==
    Len(issues) < batch_size \/ (mr > 0 /\ Len(all) >= mr)

\* the value list_tickets shows for a field of an issue
ListValue(issue, field) ==
    IF field = "key" THEN IssueKey(issue) ELSE IssueField(issue, field)

\* the default 'N/A' of ticket.get(field, 'N/A')
NotAvailable == <<"N/A", 0>>

\* a dict as its keys in insertion order and their values: d[name] = value
DictPut(d, name, value) ==
    IF \E i \in 1..Len(d.names) : d.names[i] = name
    THEN [d EXCEPT !.values =
            [i \in 1..Len(d.values) |-> IF d.names[i] = name THEN value ELSE d.values[i]]]
    ELSE [d EXCEPT !.names = Append(d.names, name), !.values = Append(d.values, value)]

\* d.get(name, default)
DictGet(d, name, default) ==
    IF \E i \in 1..Len(d.names) : d.names[i] = name
    THEN d.values[CHOOSE i \in 1..Len(d.names) : d.names[i] = name]
    ELSE default

RECURSIVE ListDict(_, _, _)
\* Lines 218-226: the dict of one issue, filled field by field
ListDict(issue, fl, d) ==
    IF fl = <<>> THEN d
    ELSE ListDict(issue, Tail(fl), DictPut(d, Head(fl), ListValue(issue, Head(fl))))

\* Lines 205-227: the row of one issue: a list of cells for a table, a dict otherwise
ListRow(issue, fl, fmt) ==
    IF fmt = "table"
    THEN [row |-> "list", names |-> <<>>,
          values |-> [i \in 1..Len(fl) |-> ListValue(issue, fl[i])]]
    ELSE ListDict(issue, fl, [row |-> "dict", names |-> <<>>, values |-> <<>>])

\* Line 237: the CSV row of one ticket
CsvRow(ticket, fl) == [i \in 1..Len(fl) |-> DictGet(ticket, fl[i], NotAvailable)]

\* the field lists a caller of list_tickets passes: the default, another order, and
\* one without the key
ListFieldLists ==
    {<<"summary", "status", "key">>, <<"key", "summary">>, <<"status", "summary">>}

-----------------------------------------------------------------------------
(* Python strings: sequences of one-character strings. *)

\* the printable ASCII characters in code-point order, from 32 (space) to 126
\* (the grave accent, 96, is written by its name)
Ascii ==
    <<
       " ", "!", "\"", "#", "$", "%", "&", "'", "(", ")", "*", "+",
       ",", "-", ".", "/", "0", "1", "2", "3", "4", "5", "6", "7",
       "8", "9", ":", ";", "<", "=", ">", "?", "@", "A", "B", "C",
       "D", "E", "F", "G", "H", "I", "J", "K", "L", "M", "N", "O",
       "P", "Q", "R", "S", "T", "U", "V", "W", "X", "Y", "Z", "[",
       "\\", "]", "^", "_", "grave", "a", "b", "c", "d", "e", "f", "g",
       "h", "i", "j", "k", "l", "m", "n", "o", "p", "q", "r", "s",
       "t", "u", "v", "w", "x", "y", "z", "{", "|", "}", "~"
    >>

Chars == {Ascii[i] : i \in 1..Len(Ascii)}

\* the code point of every character
CodePoint == [c \in Chars |-> 31 + (CHOOSE i \in 1..Len(Ascii) : Ascii[i] = c)]

\* ord(c)
Ord(c) == CodePoint[c]

\* the lower-case form of every character: "A".."Z" (65..90) move up by 32
LowerCase ==
    [c \in Chars |->
        IF CodePoint[c] >= 65 /\ CodePoint[c] <= 90 THEN Ascii[CodePoint[c] + 32 - 31]
        ELSE c]

\* c.lower()
LowerChar(c) == LowerCase[c]

\* s.lower()
Lower(s) == [i \in 1..Len(s) |-> LowerChar(s[i])]

\* s[:n]
Take(s, n) == SubSeq(s, 1, Min(n, Len(s)))

\* s[n:]
Drop(s, n) == SubSeq(s, n + 1, Len(s))

\* s.find(sub) + 1: the first position where sub occurs in s, 0 when it does not
Find(s, sub) ==
    LET hits == {i \in 1..(Len(s) + 1) :
                    /\ i + Len(sub) - 1 <= Len(s)
                    /\ SubSeq(s, i, i + Len(sub) - 1) = sub}
    IN IF hits = {} THEN 0 ELSE CHOOSE i \in hits : \A j \in hits : i <= j

\* sub in s
Contains(sub, s) == Find(s, sub) # 0

\* s.split(sep, 1)
SplitOnce(s, sep) ==
    LET i == Find(s, sep)
    IN IF i = 0 THEN <<s>> ELSE <<Take(s, i - 1), Drop(s, i + Len(sep) - 1)>>

RECURSIVE Split(_, _)
\* s.split(sep)
Split(s, sep) ==
    LET i == Find(s, sep)
    IN IF i = 0 THEN <<s>>
       ELSE <<Take(s, i - 1)>> \o Split(Drop(s, i + Len(sep) - 1), sep)

RECURSIVE LStrip(_, _)
LStrip(s, chars) ==
    IF s # <<>> /\ s[1] \in chars THEN LStrip(Tail(s), chars) ELSE s

RECURSIVE RStrip(_, _)
RStrip(s, chars) ==
    IF s # <<>> /\ s[Len(s)] \in chars THEN RStrip(SubSeq(s, 1, Len(s) - 1), chars)
    ELSE s

\* s.strip(chars)
StripChars(s, chars) == RStrip(LStrip(s, chars), chars)

\* s.strip()
Strip(s) == StripChars(s, {" ", "\t", "\n", "\r", "\f"})

RECURSIVE LexLess(_, _)
\* a < b on strings: by code point, a proper prefix being smaller
LexLess(a, b) ==
    IF b = <<>> THEN FALSE
    ELSE IF a = <<>> THEN TRUE
    ELSE IF Ord(a[1]) < Ord(b[1]) THEN TRUE
    ELSE IF Ord(a[1]) > Ord(b[1]) THEN FALSE
    ELSE LexLess(Tail(a), Tail(b))

-----------------------------------------------------------------------------
(* get_ticket_comments: the filter of lines 277-311 and the rows of 317-336. *)

\* the field names and separators the filter knows
StrAuthor == <<"a", "u", "t", "h", "o", "r">>

StrText == <<"t", "e", "x", "t">>

StrDate == <<"d", "a", "t", "e">>

StrTo == <<"t", "o">>

StrColon == <<":">>

StrEllipsis == <<".", ".", ".">>

\* the quote characters that value.strip removes (line 286)
Quotes == {"\"", "'"}

\* comment.created[:10]
DateLen == 10

\* comment.created[:19]
TimestampLen == 19

\* comment_data['body'][:50]
BodyPreviewLen == 50

\* comment_date = comment.created[:10]
CommentDate_long(created) == Take(created, TimestampLen)

CommentDate(created) == Take(created, DateLen)

\* "comment_date < start_date.strip() or comment_date > end_date.strip()"
OutsideRange_exclusive(d, start_date, end_date) ==
    ~(LexLess(Strip(start_date), d) /\ LexLess(d, Strip(end_date)))

OutsideRange(d, start_date, end_date) ==
    LexLess(d, Strip(start_date)) \/ LexLess(Strip(end_date), d)

\* Lines 283-308 for one filter string and one comment: "exclude" when the filter
\* sets include_comment to False and breaks, "warn" when the except clause runs,
\* "pass" otherwise.
FilterVerdict(filter_str, comment) ==
    LET parts == SplitOnce(filter_str, StrColon)
    IN IF Len(parts) # 2 THEN "warn"
       ELSE
        LET field == Strip(Lower(parts[1]))
            value == StripChars(Lower(parts[2]), Quotes)
        IN IF field = StrAuthor /\ ~Contains(value, Lower(comment.author))
             THEN "exclude"
           ELSE IF field = StrText /\ ~Contains(value, Lower(comment.body))
             THEN "exclude"
           ELSE IF field = StrDate
             THEN LET comment_date == CommentDate(comment.created)
                  IN IF Contains(StrTo, value)
                       THEN LET range == Split(value, StrTo)
                            IN IF Len(range) # 2 THEN "warn"
                               ELSE IF OutsideRange(comment_date, range[1], range[2])
                                    THEN "exclude"
                               ELSE "pass"
                     ELSE IF comment_date # value THEN "exclude"
                     ELSE "pass"
           ELSE "pass"

RECURSIVE ApplyFilters(_, _)
\* Lines 279-308 for one comment: include_comment, and the filter strings warned
\* about, in order; the filters after an excluding one are not evaluated.
ApplyFilters(fs, comment) ==
    IF fs = <<>> THEN [include |-> TRUE, warned |-> <<>>]
    ELSE LET v == FilterVerdict(Head(fs), comment)
         IN IF v = "exclude" THEN [include |-> FALSE, warned |-> <<>>]
            ELSE LET rest == ApplyFilters(Tail(fs), comment)
                 IN [include |-> rest.include,
                     warned |-> (IF v = "warn" THEN <<Head(fs)>> ELSE <<>>)
                                    \o rest.warned]

RECURSIVE FilterComments(_, _)
\* Lines 277-311: filtered_comments and the warnings, for the whole comment list
FilterComments(fs, cs) ==
    IF cs = <<>> THEN [kept |-> <<>>, warned |-> <<>>]
    ELSE LET one == ApplyFilters(fs, Head(cs))
             rest == FilterComments(fs, Tail(cs))
         IN [kept |-> (IF one.include THEN <<Head(cs)>> ELSE <<>>) \o rest.kept,
             warned |-> one.warned \o rest.warned]

\* Lines 314-315: filtered_comments[:max_results] when max_results > 0
LimitComments(cs, mr) == IF mr > 0 /\ Len(cs) > mr THEN SubSeq(cs, 1, mr) ELSE cs

\* Lines 321-336: the row of one comment: a list of four cells for a table, the
\* body cut to 50 characters, and a dict otherwise
CommentRow(comment, fmt) ==
    LET date == Take(comment.created, TimestampLen)
    IN IF fmt = "table"
       THEN [row |-> "list", id |-> comment.id, author |-> comment.author,
             date |-> date,
             body |-> Take(comment.body, BodyPreviewLen)
                        \o (IF Len(comment.body) > BodyPreviewLen THEN StrEllipsis
                            ELSE <<>>)]
       ELSE [row |-> "dict", id |-> comment.id, author |-> comment.author,
             date |-> date, body |-> comment.body]

-----------------------------------------------------------------------------
(* The inputs of get_ticket_comments: calendar days, comments and filter strings. *)

Digit(n) == Ascii[n + 17]

\* a calendar day as the remote writes it: zero-padded YYYY-MM-DD
FormatDate(d) ==
    << Digit(d.y \div 1000), Digit((d.y \div 100) % 10), Digit((d.y \div 10) % 10),
       Digit(d.y % 10), "-", Digit(d.m \div 10), Digit(d.m % 10), "-",
       Digit(d.d \div 10), Digit(d.d % 10) >>

Day(y, m, d) == [y |-> y, m |-> m, d |-> d]

Dec31 == Day(2022, 12, 31)

Jan01 == Day(2023, 1, 1)

Jan15 == Day(2023, 1, 15)

Jan31 == Day(2023, 1, 31)

Feb01 == Day(2023, 2, 1)

DayPool == {Dec31, Jan01, Jan15, Jan31, Feb01}

\* the time and zone part of a creation timestamp
TimeMorning == <<"T", "0", "8", ":", "1", "5", ":", "0", "0", ".", "0", "0", "0", "+", "0", "0", "0", "0">>

TimeLate == <<"T", "2", "3", ":", "5", "9", ":", "5", "9", ".", "9", "9", "9", "+", "0", "0", "0", "0">>

Comment(id, author, day, time, body) ==
    [id |-> id, author |-> author, created |-> FormatDate(day) \o time, body |-> body]

\* a body longer than the 50 characters a table row shows
LongBody == [i \in 1..(BodyPreviewLen + 5) |-> IF i % 7 = 0 THEN " " ELSE "x"]

CommentPool ==
    << Comment(1, <<"A", "l", "i", "c", "e", " ", "D", "o", "e">>, Dec31, TimeLate, <<"F", "i", "x", "e", "d", " ", "t", "h", "e", " ", "B", "u", "g">>),
       Comment(2, <<"C", "a", "r", "o", "l">>, Jan01, TimeMorning, <<"t", "o", "d", "o">>),
       Comment(3, <<"B", "o", "b">>, Jan15, TimeMorning, <<"s", "e", "e", " ", "l", "o", "g">>),
       Comment(4, <<"a", "l", "i", "c", "e">>, Jan31, TimeLate, LongBody),
       Comment(5, <<"B", "o", "b">>, Feb01, TimeMorning, <<"b", "u", "g", " ", "i", "s", " ", "b", "a", "c", "k">>) >>

\* what jira.comments can return: the comments of a ticket in the order of their
\* ids, at most MaxComments of them
CommentLists ==
    LET picks == {p \in SUBSET (1..Len(CommentPool)) : Cardinality(p) <= MaxComments}
        RECURSIVE InOrder(_)
        InOrder(p) ==
            IF p = {} THEN <<>>
            ELSE LET least == CHOOSE i \in p : \A j \in p : i <= j
                 IN <<CommentPool[least]>> \o InOrder(p \ {least})
    IN {InOrder(p) : p \in picks}

TokAuthorAli == <<"a", "u", "t", "h", "o", "r", ":", "a", "l", "i">>

TokAuthorBob == <<"A", "U", "T", "H", "O", "R", ":", "B", "o", "b">>

TokTextBug == <<"t", "e", "x", "t", ":", "\"", "B", "U", "G", "\"">>

TokDateExact(day) == StrDate \o StrColon \o FormatDate(day)

TokDateRange(from, until) ==
    StrDate \o StrColon \o FormatDate(from) \o <<" ">> \o StrTo \o <<" ">>
        \o FormatDate(until)

\* no ':' separator
TokNoColon == <<"u", "r", "g", "e", "n", "t">>

\* a field name that is none of author, text, date
TokUnknownField == <<"s", "t", "a", "t", "u", "s", ":", "d", "o", "n", "e">>

\* a date value with two "to"
TokTwoRanges == <<"d", "a", "t", "e", ":", "2", "0", "2", "3", "-", "0", "1", "-", "0", "1", " ", "t", "o", " ", "2", "0", "2", "3", "-", "0", "1", "-", "1", "5", " ", "t", "o", " ", "2", "0", "2", "3", "-", "0", "1", "-", "3", "1">>

ExactDays == {Jan15}

RangeDays == {<<Jan01, Jan31>>, <<Jan15, Feb01>>, <<Jan31, Jan01>>}

FilterPool ==
    {TokAuthorAli, TokAuthorBob, TokTextBug, TokNoColon, TokUnknownField, TokTwoRanges}
        \cup {TokDateExact(day) : day \in ExactDays}
        \cup {TokDateRange(r[1], r[2]) : r \in RangeDays}

\* the filter lists a caller passes: at most MaxFilters filter strings
FilterLists == UNION {[1..n -> FilterPool] : n \in 0..MaxFilters}

-----------------------------------------------------------------------------
(* create_jira_ticket: the local check and the inputs. *)

\* os.path.exists(description_file_path)
DescriptionFileExists_always(path, disk) == TRUE

DescriptionFileExists(path, disk) == path \in disk

PathPool == {"description.md", "missing.md"}

\* epic_key: None (written "") or the key of an epic
EpicKeys == {"", "EPIC-1"}

\* the key the remote gives the ticket it creates
NewTicketKey == "PROJ-1"

\* "if epic_key:"
EpicGiven_always(epic) == TRUE

EpicGiven(epic) == epic # ""

-----------------------------------------------------------------------------
(* The state after construction: no command is running. *)

Init ==
    /\ pc = "idle"
    /\ cmd = "none"
    /\ error = "none"
    /\ max_results = 0
    /\ output_format = "table"
    /\ items_per_batch = 1
    /\ remote_total = 0
    /\ total_issues_count = 0
    /\ num_batches = 0
    /\ start_at = 0
    /\ total_issues = <<>>
    /\ tickets_data = <<>>
    /\ progress = 0
    /\ count_requests = 0
    /\ requests = <<>>
    /\ filters = <<>>
    /\ comments = <<>>
    /\ filtered_comments = <<>>
    /\ comments_data = <<>>
    /\ warnings = <<>>
    /\ files = {}
    /\ description_file_path = ""
    /\ epic_key = ""
    /\ calls = <<>>
    /\ tickets = {}
    /\ epic_links = {}
    /\ fields = <<>>
    /\ header = <<>>
    /\ list_tickets_data = <<>>
    /\ csv_rows = <<>>

-----------------------------------------------------------------------------
(* run_jql *)

\* Lines 371-384: the count-only search returns rt; the plan is computed.
JqlStart ==
    /\ pc = "idle"
    /\ \E mr \in 0..MaxResults, ipb \in 1..MaxBatch, rt \in 0..MaxTotal,
          fl \in JqlFieldLists :
        /\ max_results' = mr
        /\ items_per_batch' = ipb
        /\ fields' = fl
        /\ remote_total' = rt
        /\ total_issues_count' = EffectiveTotal(mr, rt)
        /\ num_batches' = NumBatches(EffectiveTotal(mr, rt), ipb)
    /\ cmd' = "run_jql"
    /\ count_requests' = 1
    /\ start_at' = 0
    /\ total_issues' = <<>>
    /\ progress' = 0
    /\ requests' = <<>>
    /\ tickets_data' = <<>>
    /\ pc' = "jql_loop"
    /\ UNCHANGED <<error, output_format, commentVars, createVars, header,
                   list_tickets_data, csv_rows>>

\* Lines 386-399: one iteration of the loop whose search returns n records.
JqlFetch ==
    /\ pc = "jql_loop"
    /\ start_at < total_issues_count
    /\ Len(requests) < MaxRequests
    /\ LET batch_size == BatchSize(items_per_batch, total_issues_count, start_at)
       IN \E n \in 0..(batch_size + MaxExtra) :
            LET issues == BatchResponse(start_at, n)
                extended == total_issues \o issues
            IN /\ requests' = Append(requests, [startAt |-> start_at,
                                                 maxResults |-> batch_size,
                                                 returned |-> n,
                                                 raised |-> FALSE])
               /\ IF IsEmptyBatch(issues)
                  THEN /\ pc' = "jql_render"
                       /\ UNCHANGED <<total_issues, progress, start_at>>
                  ELSE /\ progress' = progress + Len(issues)
                       /\ start_at' = Advance(start_at, issues, batch_size)
                       /\ IF ReachedMax(max_results, extended)
                          THEN /\ total_issues' = Trim(extended, max_results)
                               /\ pc' = "jql_render"
                          ELSE /\ total_issues' = extended
                               /\ pc' = "jql_loop"
    /\ UNCHANGED <<cmd, error, max_results, output_format, items_per_batch,
                   remote_total, total_issues_count, num_batches, tickets_data,
                   count_requests, commentVars, createVars, listVars>>

\* Line 386: the loop condition is false.
JqlLoopExit ==
    /\ pc = "jql_loop"
    /\ ~(start_at < total_issues_count)
    /\ pc' = "jql_render"
    /\ UNCHANGED <<cmd, error, max_results, output_format, jqlVars, commentVars,
                   createVars, listVars>>

\* Line 388: the search raises; nothing catches it.
JqlRemoteError ==
    /\ pc = "jql_loop"
    /\ start_at < total_issues_count
    /\ Len(requests) < MaxRequests
    /\ requests' = Append(requests,
            [startAt |-> start_at,
             maxResults |-> BatchSize(items_per_batch, total_issues_count, start_at),
             returned |-> 0,
             raised |-> TRUE])
    /\ error' = "RemoteError"
    /\ pc' = "failed"
    /\ UNCHANGED <<cmd, max_results, output_format, items_per_batch, remote_total,
                   total_issues_count, num_batches, start_at, total_issues,
                   tickets_data, progress, count_requests, commentVars, createVars,
                   listVars>>

\* Lines 401-425: the rows are built from total_issues and written out in the
\* format the caller asked for (the argument is first read here).
JqlRender ==
    /\ pc = "jql_render"
    /\ \E fmt \in OutputFormats :
        /\ output_format' = fmt
        /\ header' = IF fmt \in {"table", "csv"} THEN fields ELSE <<>>
    /\ tickets_data' = [i \in 1..Len(total_issues) |-> TicketRow(total_issues[i])]
    /\ pc' = "jql_done"
    /\ UNCHANGED <<cmd, error, max_results, items_per_batch,
                   remote_total, total_issues_count, num_batches, start_at,
                   total_issues, progress, count_requests, requests, commentVars,
                   createVars, fields, list_tickets_data, csv_rows>>

-----------------------------------------------------------------------------
(* list_tickets *)

\* Lines 177-190: the key is added to the fields, the query is built; the remote holds
\* rt matching issues.
ListStart ==
    /\ pc = "idle"
    /\ \E fl \in ListFieldLists, mr \in 0..MaxResults, ipb \in 1..MaxBatch,
          rt \in 0..MaxTotal :
        /\ fields' = WithKey(fl)
        /\ max_results' = mr
        /\ items_per_batch' = ipb
        /\ remote_total' = rt
    /\ cmd' = "list_tickets"
    /\ start_at' = 0
    /\ total_issues' = <<>>
    /\ requests' = <<>>
    /\ pc' = "list_loop"
    /\ UNCHANGED <<error, output_format, total_issues_count, num_batches, tickets_data,
                   progress, count_requests, commentVars, createVars, header,
                   list_tickets_data, csv_rows>>

\* Lines 192-200: one iteration of the loop whose search returns n records, at most
\* the records the remote holds from the offset on.
ListFetch ==
    /\ pc = "list_loop"
    /\ LET batch_size == ListBatchSize(items_per_batch, max_results, Len(total_issues))
       IN \E n \in 0..Min(batch_size + MaxExtra, remote_total - start_at) :
            LET issues == BatchResponse(start_at, n)
                extended == total_issues \o issues
            IN /\ requests' = Append(requests, [startAt |-> start_at,
                                                 maxResults |-> batch_size,
                                                 returned |-> n,
                                                 raised |-> FALSE])
               /\ IF IsEmptyBatch(issues)
                  THEN /\ pc' = "list_render"
                       /\ UNCHANGED <<total_issues, start_at>>
                  ELSE /\ total_issues' = extended
                       /\ start_at' = start_at + Len(issues)
                       /\ pc' = IF ListStop(issues, batch_size, max_results, extended)
                                THEN "list_render" ELSE "list_loop"
    /\ UNCHANGED <<cmd, error, max_results, output_format, items_per_batch,
                   remote_total, total_issues_count, num_batches, tickets_data,
                   progress, count_requests, commentVars, createVars, listVars>>

\* Line 194: the search raises; nothing catches it.
ListRemoteError ==
    /\ pc = "list_loop"
    /\ requests' = Append(requests,
            [startAt |-> start_at,
             maxResults |-> ListBatchSize(items_per_batch, max_results,
                                          Len(total_issues)),
             returned |-> 0,
             raised |-> TRUE])
    /\ error' = "RemoteError"
    /\ pc' = "failed"
    /\ UNCHANGED <<cmd, max_results, output_format, items_per_batch, remote_total,
                   total_issues_count, num_batches, start_at, total_issues,
                   tickets_data, progress, count_requests, commentVars, createVars,
                   listVars>>

\* Lines 202-242: the rows are built from total_issues and written out in the format
\* the caller asked for (the argument is first read here).
ListRender ==
    /\ pc = "list_render"
    /\ \E fmt \in OutputFormats :
        LET data == [k \in 1..Len(total_issues) |-> ListRow(total_issues[k], fields, fmt)]
        IN /\ output_format' = fmt
           /\ list_tickets_data' = data
           /\ header' = IF fmt \in {"table", "csv"} THEN fields ELSE <<>>
           /\ csv_rows' = IF fmt = "csv"
                          THEN [k \in 1..Len(data) |-> CsvRow(data[k], fields)]
                          ELSE <<>>
    /\ pc' = "list_done"
    /\ UNCHANGED <<cmd, error, max_results, jqlVars, commentVars, createVars, fields>>

-----------------------------------------------------------------------------
(* get_ticket_comments *)

\* Lines 273-354: the comments are fetched, filtered, limited and formatted.
GetTicketComments ==
    /\ pc = "idle"
    /\ \E fs \in FilterLists, cs \in CommentLists :
        LET result == FilterComments(fs, cs)
        IN /\ filters' = fs
           /\ comments' = cs
           /\ filtered_comments' = result.kept
           /\ warnings' = result.warned
           /\ \E mr \in 0..(MaxComments - 1), fmt \in OutputFormats :
                LET limited == LimitComments(filtered_comments', mr)
                IN /\ max_results' = mr
                   /\ output_format' = fmt
                   /\ comments_data' =
                        [i \in 1..Len(limited) |-> CommentRow(limited[i], fmt)]
    /\ cmd' = "get_ticket_comments"
    /\ pc' = "comments_done"
    /\ UNCHANGED <<error, jqlVars, createVars, listVars>>

-----------------------------------------------------------------------------
(* create_jira_ticket *)

\* Lines 90-102: the description file is read, or FileNotFoundError is raised.
CreateStart ==
    /\ pc = "idle"
    /\ \E disk \in SUBSET PathPool, path \in PathPool, epic \in EpicKeys :
        /\ files' = disk
        /\ description_file_path' = path
        /\ epic_key' = epic
        /\ IF DescriptionFileExists(path, disk)
           THEN /\ pc' = "create_issue"
                /\ error' = "none"
           ELSE /\ pc' = "failed"
                /\ error' = "FileNotFoundError"
    /\ cmd' = "create_jira_ticket"
    /\ UNCHANGED <<max_results, output_format, jqlVars, commentVars, calls, tickets,
                   epic_links, listVars>>

\* Lines 104-107: jira.create_issue creates the ticket, or raises.
CreateIssue ==
    /\ pc = "create_issue"
    /\ calls' = Append(calls, "create_issue")
    /\ \E ok \in BOOLEAN :
        IF ok
        THEN /\ tickets' = tickets \cup {NewTicketKey}
             /\ pc' = IF EpicGiven(epic_key) THEN "create_link" ELSE "create_done"
             /\ UNCHANGED error
        ELSE /\ error' = "RemoteError"
             /\ pc' = "failed"
             /\ UNCHANGED tickets
    /\ UNCHANGED <<cmd, max_results, output_format, jqlVars, commentVars, files,
                   description_file_path, epic_key, epic_links, listVars>>

\* Lines 108-111: jira.add_issues_to_epic links the ticket, or raises.
AddIssuesToEpic ==
    /\ pc = "create_link"
    /\ calls' = Append(calls, "add_issues_to_epic")
    /\ \E ok \in BOOLEAN :
        IF ok
        THEN /\ epic_links' = epic_links \cup {<<epic_key, NewTicketKey>>}
             /\ pc' = "create_done"
             /\ UNCHANGED error
        ELSE /\ error' = "RemoteError"
             /\ pc' = "failed"
             /\ UNCHANGED epic_links
    /\ UNCHANGED <<cmd, max_results, output_format, jqlVars, commentVars, files,
                   description_file_path, epic_key, tickets, listVars>>

-----------------------------------------------------------------------------
(* The process ends; the next command starts from a fresh process. *)

Exit ==
    /\ pc \in {"jql_done", "list_done", "comments_done", "create_done", "failed"}
    /\ pc' = "idle"
    /\ cmd' = "none"
    /\ error' = "none"
    /\ max_results' = 0
    /\ output_format' = "table"
    /\ items_per_batch' = 1
    /\ remote_total' = 0
    /\ total_issues_count' = 0
    /\ num_batches' = 0
    /\ start_at' = 0
    /\ total_issues' = <<>>
    /\ tickets_data' = <<>>
    /\ progress' = 0
    /\ count_requests' = 0
    /\ requests' = <<>>
    /\ filters' = <<>>
    /\ comments' = <<>>
    /\ filtered_comments' = <<>>
    /\ comments_data' = <<>>
    /\ warnings' = <<>>
    /\ files' = {}
    /\ description_file_path' = ""
    /\ epic_key' = ""
    /\ calls' = <<>>
    /\ tickets' = {}
    /\ epic_links' = {}
    /\ fields' = <<>>
    /\ header' = <<>>
    /\ list_tickets_data' = <<>>
    /\ csv_rows' = <<>>

Next ==
    \/ JqlStart
    \/ JqlFetch
    \/ JqlLoopExit
    \/ JqlRemoteError
    \/ JqlRender
    \/ ListStart
    \/ ListFetch
    \/ ListRemoteError
    \/ ListRender
    \/ GetTicketComments
    \/ CreateStart
    \/ CreateIssue
    \/ AddIssuesToEpic
    \/ Exit

Spec == Init /\ [][Next]_vars

\* run_jql is one synchronous thread: when a search returns, the iteration that
\* issued it runs to its end, and the loop condition is evaluated again.
LiveSpec == Spec /\ WF_vars(JqlFetch \/ JqlLoopExit)

-----------------------------------------------------------------------------
(* Properties of run_jql *)

RECURSIVE SumReturned(_)
\* the number of records the first k batch searches returned
SumReturned(k) == IF k = 0 THEN 0 ELSE SumReturned(k - 1) + requests[k].returned

RECURSIVE Fetched(_)
\* the records the first k batch searches returned, in order
Fetched(k) ==
    IF k = 0 THEN <<>>
    ELSE Fetched(k - 1) \o BatchResponse(requests[k].startAt, requests[k].returned)

\* every batch search so far returned exactly the number of records asked for
ExactBatches ==
    \A i \in 1..Len(requests) :
        ~requests[i].raised /\ requests[i].returned = requests[i].maxResults

\* ceil(a / b), by its definition
CeilDiv(a, b) == CHOOSE k \in 0..a : k * b >= a /\ (k - 1) * b < a

AfterLoop == cmd = "run_jql" /\ pc \in {"jql_render", "jql_done"}

\* the cap on the batch searches never stops the loop of the code
RequestCapNotReached ==
    (pc = "jql_loop" /\ start_at < total_issues_count) => Len(requests) < MaxRequests

\* C1: with max_results > 0, the records aggregated by the loop of run_jql, and the
\* rows rendered from them, are never more than max_results, whatever each batch
\* response carries.
C1_NeverMoreThanMax ==
    (AfterLoop /\ max_results > 0) =>
        /\ Len(total_issues) <= max_results
        /\ Len(tickets_data) <= max_results

\* C1 witness: a response carried more than was asked for, more than max_results
\* records were received, and max_results rows were rendered.
C1_Witness ==
    /\ cmd = "run_jql" /\ pc = "jql_done" /\ max_results > 0
    /\ \E i \in 1..Len(requests) : requests[i].returned > requests[i].maxResults
    /\ SumReturned(Len(requests)) > max_results
    /\ Len(tickets_data) = max_results

\* C2: run_jql never issues more than batch_count + 1 searches.  Stated here for the
\* batch searches alone (the count-only search not counted), which the claim implies.
C2_AtMostBatchCountPlusOne ==
    cmd = "run_jql" => Len(requests) <= num_batches + 1

\* C3: the fetch loop of run_jql is always left: from every state inside the loop a
\* state after the loop is reached, unless a search raises.
C3_LoopTerminates ==
    (pc = "jql_loop") ~> (pc = "jql_render" \/ pc = "failed")

\* C3 witness: the loop was left by its condition after more searches than planned
\* batches (short batches).
C3_Witness ==
    /\ cmd = "run_jql" /\ pc = "jql_render"
    /\ ~(start_at < total_issues_count)
    /\ Len(requests) > num_batches
    /\ max_results = 0

\* C4: every batch search is issued at the offset equal to the number of records all
\* earlier batch searches returned, and the offsets strictly increase.
C4_OffsetIsRecordsReturned ==
    /\ \A i \in 1..Len(requests) : requests[i].startAt = SumReturned(i - 1)
    /\ \A i, j \in 1..Len(requests) :
            i < j => requests[i].startAt < requests[j].startAt

\* C4 witness: a search was issued after a short, non-empty batch and after a batch
\* longer than asked for.
C4_Witness ==
    /\ Len(requests) >= 3
    /\ \E i \in 1..(Len(requests) - 1) :
            requests[i].returned > 0 /\ requests[i].returned < requests[i].maxResults
    /\ \E i \in 1..(Len(requests) - 1) :
            requests[i].returned > requests[i].maxResults

\* C5: without a maximum and with every batch returned in full, run_jql issues
\* ceil(total / items_per_batch) batch searches, each of items_per_batch records
\* but a last one of the remainder, and aggregates total records.
C5_ExactBatchPlan ==
    (AfterLoop /\ max_results = 0 /\ ExactBatches) =>
        LET k == CeilDiv(remote_total, items_per_batch)
        IN /\ Len(requests) = k
           /\ \A i \in 1..Len(requests) :
                requests[i].maxResults =
                    IF i < k THEN items_per_batch
                    ELSE remote_total - (k - 1) * items_per_batch
           /\ Len(total_issues) = remote_total
           /\ (pc = "jql_done" => Len(tickets_data) = remote_total)

\* C5 witness: several full batches and a last, smaller one were fetched.
C5_Witness ==
    /\ AfterLoop /\ pc = "jql_done" /\ max_results = 0 /\ ExactBatches
    /\ Len(requests) >= 2
    /\ requests[1].maxResults = items_per_batch
    /\ requests[Len(requests)].maxResults < items_per_batch

\* C6: with 0 < max_results <= items_per_batch, max_results <= remote total and the
\* batch returned in full, run_jql issues one batch search, for max_results records,
\* and max_results records are rendered.
C6_SingleBatchOfMax ==
    (/\ AfterLoop /\ ExactBatches
     /\ 0 < max_results /\ max_results <= items_per_batch
     /\ max_results <= remote_total) =>
        /\ Len(requests) = 1
        /\ requests[1].startAt = 0
        /\ requests[1].maxResults = max_results
        /\ Len(total_issues) = max_results
        /\ (pc = "jql_done" => Len(tickets_data) = max_results)

\* C6 witness: max_results is smaller than both the batch size and the remote total.
C6_Witness ==
    /\ AfterLoop /\ pc = "jql_done" /\ ExactBatches
    /\ 0 < max_results /\ max_results < items_per_batch
    /\ max_results < remote_total
    /\ Len(tickets_data) = max_results

\* C7: an empty batch before the computed total is reached ends the fetching at
\* once: no search follows it, nothing is raised, and the records aggregated so far,
\* fewer than the total, are kept as they are and rendered.
C7_EmptyBatchStops ==
    cmd = "run_jql" =>
        /\ \A i \in 1..(Len(requests) - 1) : requests[i].returned > 0
        /\ \A k \in 1..Len(requests) :
            (k = Len(requests) /\ ~requests[k].raised /\ requests[k].returned = 0) =>
                /\ requests[k].startAt < total_issues_count
                /\ error = "none"
                /\ pc \in {"jql_render", "jql_done"}
                /\ total_issues = Fetched(k - 1)
                /\ Len(total_issues) < total_issues_count
                /\ (pc = "jql_done" =>
                        tickets_data = [i \in 1..Len(total_issues) |->
                                            TicketRow(total_issues[i])])

\* C7 witness: an empty batch came after a non-empty one and the records of the
\* first were rendered.
C7_Witness ==
    /\ cmd = "run_jql" /\ pc = "jql_done"
    /\ Len(requests) >= 2
    /\ ~requests[Len(requests)].raised
    /\ requests[Len(requests)].returned = 0
    /\ Len(tickets_data) > 0

-----------------------------------------------------------------------------
(* Properties of get_ticket_comments *)

CommentsDone == cmd = "get_ticket_comments" /\ pc = "comments_done"

\* the comment is in filtered_comments
Kept(comment) == \E j \in 1..Len(filtered_comments) : filtered_comments[j] = comment

\* a warning was written for the filter string
Warned(filter_str) == \E j \in 1..Len(warnings) : warnings[j] = filter_str

\* the calendar day of a comment and the order of calendar days
DayText == [day \in DayPool |-> FormatDate(day)]

DayOf(comment) == CHOOSE day \in DayPool : DayText[day] = Take(comment.created, 10)

DayNumber(day) == day.y * 10000 + day.m * 100 + day.d

Within(day, from, until) ==
    DayNumber(from) <= DayNumber(day) /\ DayNumber(day) <= DayNumber(until)

\* the filter strings of the pool by what they are
ExactToken == [day \in ExactDays |-> TokDateExact(day)]

RangeToken == [r \in RangeDays |-> TokDateRange(r[1], r[2])]

ExactTokens == {ExactToken[day] : day \in ExactDays}

RangeTokens == {RangeToken[r] : r \in RangeDays}

WellFormedTokens == {TokAuthorAli, TokAuthorBob, TokTextBug} \cup ExactTokens \cup RangeTokens

UnparseableTokens == {TokNoColon, TokUnknownField}

\* what each well-formed filter string of the pool asks of a comment
Passes(filter_str, comment) ==
    /\ filter_str = TokAuthorAli => Contains(<<"a", "l", "i">>, Lower(comment.author))
    /\ filter_str = TokAuthorBob => Contains(<<"b", "o", "b">>, Lower(comment.author))
    /\ filter_str = TokTextBug => Contains(<<"b", "u", "g">>, Lower(comment.body))
    /\ \A day \in ExactDays :
        filter_str = ExactToken[day] => DayOf(comment) = day
    /\ \A r \in RangeDays :
        filter_str = RangeToken[r] => Within(DayOf(comment), r[1], r[2])

\* a comment is kept iff it passes every well-formed filter string
FilterIsConjunction ==
    CommentsDone =>
        \A i \in 1..Len(comments) :
            Kept(comments[i]) <=>
                \A k \in 1..Len(filters) :
                    filters[k] \in WellFormedTokens => Passes(filters[k], comments[i])

\* every unparseable filter string that was evaluated for a comment (the comment was
\* kept, so no filter before it broke the loop) was warned about
UnparseableAlwaysWarns ==
    CommentsDone =>
        \A k \in 1..Len(filters) :
            (filters[k] \in UnparseableTokens /\ filtered_comments # <<>>) =>
                Warned(filters[k])

\* C8: a comment is included iff it passes every parseable filter token; a token with
\* no ':' or with a field name other than author, text, date never removes a comment
\* and always produces a warning.
C8_ConjunctionAndWarnings == FilterIsConjunction /\ UnparseableAlwaysWarns

\* C9: a filter 'date:<start> to <end>' keeps a comment iff start <= d <= end, both
\* inclusive, d being the first 10 characters of the comment's timestamp; a date
\* filter without 'to' keeps it iff d is that day.  Among other filters a date filter
\* keeps no comment outside its days.
C9_DateFilter ==
    CommentsDone =>
        \A i \in 1..Len(comments) :
            /\ \A r \in RangeDays :
                /\ filters = <<RangeToken[r]>> =>
                    (Kept(comments[i]) <=> Within(DayOf(comments[i]), r[1], r[2]))
                /\ (\E k \in 1..Len(filters) : filters[k] = RangeToken[r]) =>
                    (Kept(comments[i]) => Within(DayOf(comments[i]), r[1], r[2]))
            /\ \A day \in ExactDays :
                /\ filters = <<ExactToken[day]>> =>
                    (Kept(comments[i]) <=> DayOf(comments[i]) = day)
                /\ (\E k \in 1..Len(filters) : filters[k] = ExactToken[day]) =>
                    (Kept(comments[i]) => DayOf(comments[i]) = day)

\* C9 witness: 'date:2023-01-01 to 2023-01-31' kept a comment of 2023-01-15 and
\* dropped one of 2023-02-01.
C9_Witness ==
    /\ CommentsDone
    /\ filters = <<TokDateRange(Jan01, Jan31)>>
    /\ Len(comments) = 2
    /\ DayOf(comments[1]) = Jan15 /\ DayOf(comments[2]) = Feb01
    /\ filtered_comments = <<comments[1]>>

-----------------------------------------------------------------------------
(* Properties of create_jira_ticket *)

\* C10: create_jira_ticket with a description file path that does not exist raises
\* FileNotFoundError before any remote call: neither create_issue nor
\* add_issues_to_epic is called and no ticket is created.
C10_MissingFileNoRemoteCall ==
    (cmd = "create_jira_ticket" /\ description_file_path \notin files) =>
        /\ pc = "failed"
        /\ error = "FileNotFoundError"
        /\ calls = <<>>
        /\ tickets = {}
        /\ epic_links = {}

\* C10 witness: the call named a missing file and an epic, and failed.
C10_Witness ==
    /\ cmd = "create_jira_ticket"
    /\ description_file_path \notin files
    /\ epic_key # ""
    /\ error = "FileNotFoundError"

\* C11: the epic-link call is issued only after create_issue has succeeded and only
\* when an epic key is given; when the link call fails the error propagates with the
\* ticket created and unlinked; no other call (rollback, delete) is issued and
\* neither call is issued twice.
C11_LinkAfterCreateNoRollback ==
    cmd = "create_jira_ticket" =>
        /\ calls \in {<<>>, <<"create_issue">>, <<"create_issue", "add_issues_to_epic">>}
        /\ (pc = "create_link" \/ Len(calls) = 2) =>
                (epic_key # "" /\ NewTicketKey \in tickets)
        /\ (Len(calls) = 2 /\ error # "none") =>
                /\ pc = "failed"
                /\ error = "RemoteError"
                /\ tickets = {NewTicketKey}
                /\ epic_links = {}
        /\ (Len(calls) = 1 /\ error # "none") => (tickets = {} /\ epic_links = {})

\* C11 witness: the ticket was created, the link call failed, and the command ended
\* with the ticket created and unlinked.
C11_Witness ==
    /\ cmd = "create_jira_ticket" /\ pc = "failed"
    /\ calls = <<"create_issue", "add_issues_to_epic">>
    /\ error = "RemoteError"
    /\ tickets = {NewTicketKey}
    /\ epic_links = {}

-----------------------------------------------------------------------------
(* The columns of the tabular and CSV output. *)

\* the value run_jql shows of an issue for a field name: the status by its name, the
\* assignee by the display name
JqlShown(issue, field) ==
    CASE field = "key" -> IssueKey(issue)
      [] field = "status" -> IssueField(issue, "status.name")
      [] field = "assignee" -> IssueField(issue, "assignee.displayName")
      [] OTHER -> IssueField(issue, field)

\* the value list_tickets shows of an issue for a field name
ListShown(issue, field) ==
    IF field = "key" THEN IssueKey(issue) ELSE IssueField(issue, field)

\* a row has one cell per field, the i-th holding the issue's value for the i-th field
JqlRowFollowsFields(row, issue) ==
    /\ Len(row) = Len(fields)
    /\ \A i \in 1..Len(fields) : row[i] = JqlShown(issue, fields[i])

ListRowFollowsFields(row, issue) ==
    /\ Len(row) = Len(fields)
    /\ \A i \in 1..Len(fields) : row[i] = ListShown(issue, fields[i])

JqlColumnsFollowFields ==
    (cmd = "run_jql" /\ pc = "jql_done" /\ output_format \in {"table", "csv"}) =>
        /\ header = fields
        /\ \A k \in 1..Len(tickets_data) :
                JqlRowFollowsFields(tickets_data[k], total_issues[k])

ListColumnsFollowFields ==
    /\ (cmd = "list_tickets" /\ pc = "list_done" /\ output_format = "table") =>
            /\ header = fields
            /\ \A k \in 1..Len(list_tickets_data) :
                    ListRowFollowsFields(list_tickets_data[k].values, total_issues[k])
    /\ (cmd = "list_tickets" /\ pc = "list_done" /\ output_format = "csv") =>
            /\ header = fields
            /\ Len(csv_rows) = Len(total_issues)
            /\ \A k \in 1..Len(csv_rows) :
                    ListRowFollowsFields(csv_rows[k], total_issues[k])

\* C12: in the table and the CSV output of run_jql and of list_tickets the header row
\* is the field list the caller supplied, in order, and every data row has one cell
\* per field, the cell of column i holding that record's value for the i-th field.
C12_ColumnsFollowFields == JqlColumnsFollowFields /\ ListColumnsFollowFields

-----------------------------------------------------------------------------
(* The cap of list_tickets. *)

\* C13: with a positive maximum list_tickets never hands more than max_results
\* tickets on to the output, whatever the sizes of the batches the remote returned:
\* neither the tickets collected by the loop nor the rows built from them exceed it.
C13_ListNeverMoreThanMax ==
    (cmd = "list_tickets" /\ pc \in {"list_render", "list_done"} /\ max_results > 0) =>
        /\ Len(total_issues) <= max_results
        /\ pc = "list_done" => Len(list_tickets_data) <= max_results

====
